---- MODULE Spec2Model ----
(***************************************************************************)
(* Browser client of the chess position generator.                         *)
(*   frontend/script.js : the generation panel (click handler of           *)
(*                        generateBtn, displayResults, showStatus)         *)
(*   navbar.js          : the navigation session widget (initNavbar,       *)
(*                        showAuthenticatedNavbar, showUnauthenticated-    *)
(*                        Navbar)                                          *)
(* A text is a sequence of pieces (characters or fixed fragments); its     *)
(* value is their concatenation.  French accents are dropped in the fixed  *)
(* fragments.                                                              *)
(***************************************************************************)
EXTENDS Integers, Sequences, FiniteSets, TLC

\* How many click handlers the model lets run at the same time.
MaxInFlight == 2

(***************************************************************************)
(* JavaScript values                                                       *)
(***************************************************************************)
\* A number produced by parseInt: NaN or an integer.
NaN == [nan |-> TRUE, n |-> 0]
IntValue(n) == [nan |-> FALSE, n |-> n]

\* A scalar JavaScript value read from a parsed JSON object.
Undef == [t |-> "undef", s |-> <<>>, n |-> 0]
Str(s) == [t |-> "str", s |-> s, n |-> 0]
Num(n) == [t |-> "num", s |-> <<>>, n |-> n]

DigitChars == <<"0", "1", "2", "3", "4", "5", "6", "7", "8", "9">>
IsDigit(c) == \E i \in 1..Len(DigitChars) : DigitChars[i] = c
DigitValue(c) == (CHOOSE i \in 1..Len(DigitChars) : DigitChars[i] = c) - 1

RECURSIVE NatDigits(_)
NatDigits(n) ==
    IF n < 10 THEN <<DigitChars[n + 1]>>
    ELSE Append(NatDigits(n \div 10), DigitChars[(n % 10) + 1])

\* Number.prototype.toString for an integer.
NumberToString(n) == IF n < 0 THEN <<"-">> \o NatDigits(-n) ELSE NatDigits(n)

\* String(v), as a template literal `${v}` computes it.
ToStr(v) ==
    CASE v.t = "undef" -> <<"undefined">>
      [] v.t = "str" -> v.s
      [] v.t = "num" -> NumberToString(v.n)

\* The setter of Node.textContent (a nullable DOMString: undefined gives "").
TextContent(v) == IF v.t = "undef" THEN <<>> ELSE ToStr(v)

RECURSIVE GroupDigits(_)
GroupDigits(ds) ==
    IF Len(ds) <= 3 THEN ds
    ELSE GroupDigits(SubSeq(ds, 1, Len(ds) - 3)) \o <<",">>
         \o SubSeq(ds, Len(ds) - 2, Len(ds))

\* v.toLocaleString(): a number gets group separators, a string is itself.
toLocaleString(v) ==
    IF v.t = "str" THEN v.s
    ELSE IF v.n < 0 THEN <<"-">> \o GroupDigits(NatDigits(-v.n))
    ELSE GroupDigits(NatDigits(v.n))

Unreserved ==
    {"0", "1", "2", "3", "4", "5", "6", "7", "8", "9", "k", "K", "p", "P", "q",
     "Q", "r", "R", "w", "b", "u", "n", "d", "e", "f", "i", "-", "_", "."}

PercentCode(c) ==
    CASE c = "/" -> <<"%", "2", "F">>
      [] c = " " -> <<"%", "2", "0">>
      [] c = "%" -> <<"%", "2", "5">>

RECURSIVE EncodeChars(_)
EncodeChars(s) ==
    IF s = <<>> THEN <<>>
    ELSE (IF Head(s) \in Unreserved THEN <<Head(s)>> ELSE PercentCode(Head(s)))
         \o EncodeChars(Tail(s))

\* encodeURIComponent(v): v is converted to a string first.
encodeURIComponent(v) == EncodeChars(ToStr(v))

(***************************************************************************)
(* parseInt of a text field                                                *)
(***************************************************************************)
RECURSIVE SkipSpaces(_)
SkipSpaces(s) ==
    IF s # <<>> /\ Head(s) = " " THEN SkipSpaces(Tail(s)) ELSE s

RECURSIVE DigitPrefix(_)
DigitPrefix(s) ==
    IF s # <<>> /\ IsDigit(Head(s)) THEN <<Head(s)>> \o DigitPrefix(Tail(s))
    ELSE <<>>

RECURSIVE DigitsValue(_)
DigitsValue(ds) ==
    IF ds = <<>> THEN 0
    ELSE 10 * DigitsValue(SubSeq(ds, 1, Len(ds) - 1)) + DigitValue(ds[Len(ds)])

parseInt(text) ==
    LET s == SkipSpaces(text)
        neg == s # <<>> /\ Head(s) = "-"
        rest == IF s # <<>> /\ Head(s) \in {"-", "+"} THEN Tail(s) ELSE s
        ds == DigitPrefix(rest)
    IN  IF ds = <<>> THEN NaN
        ELSE IntValue(IF neg THEN 0 - DigitsValue(ds) ELSE DigitsValue(ds))

\* a >= b on numbers: false as soon as one side is NaN.
JsGE(a, b) == ~a.nan /\ ~b.nan /\ a.n >= b.n

\* JSON.stringify of a number: NaN is written as null.
JsonNull == [t |-> "null", n |-> 0]
JsonNumber(x) == IF x.nan THEN JsonNull ELSE [t |-> "int", n |-> x.n]

(***************************************************************************)
(* Inputs of the generation panel                                          *)
(***************************************************************************)
\* What the user may have typed in a numeric field.
FieldTexts ==
    {<<>>, <<"1">>, <<"2">>, <<"1", "2">>, <<"-", "1">>, <<"a">>,
     <<"2", "a">>, <<" ", "1">>}
AttemptTexts == {<<>>, <<"5">>}

Fen1 == <<"8", "/", "8", " ", "w">>
Fen2 == <<"k", "7", "/", "K", "7", " ", "b", " ", "-">>

\* A PositionReport with every field the page renders.
Report(fen, wm, bm, turn, attempts, secs) ==
    [t |-> "obj", fen |-> Str(fen), white_material |-> Num(wm),
     black_material |-> Num(bm), material_difference |-> Num(wm - bm),
     turn |-> Str(turn), eval_line1 |-> Str(<<"+", "1", ".", "5">>),
     eval_line2 |-> Str(<<"-", "0", ".", "3">>), attempts |-> Num(attempts),
     time_seconds |-> Num(secs)]
NoData ==
    [t |-> "undef", fen |-> Undef, white_material |-> Undef,
     black_material |-> Undef, material_difference |-> Undef, turn |-> Undef,
     eval_line1 |-> Undef, eval_line2 |-> Undef, attempts |-> Undef,
     time_seconds |-> Undef]
WellFormedReports ==
    {Report(Fen1, 3, 5, <<"w">>, 1234567, 2),
     Report(Fen2, 39, 0, <<"b">>, 42, 118)}
\* A report the backend sent without its attempts field.
TruncatedReport ==
    [Report(Fen2, 1, 1, <<"b">>, 0, 0) EXCEPT !.attempts = Undef]

ErrText == <<"No position found">>

\* The value response.json() resolves to.
Result(success, data, error) ==
    [isNull |-> FALSE, success |-> success, data |-> data, error |-> error]
NullResult ==
    [isNull |-> TRUE, success |-> "absent", data |-> NoData, error |-> Undef]
WellFormedResults ==
    {Result("true", d, Undef) : d \in WellFormedReports}
    \cup {Result("false", NoData, Str(ErrText))}
GenerateResults ==
    WellFormedResults
    \cup {Result("true", NoData, Undef), Result("true", TruncatedReport, Undef),
          Result("false", NoData, Undef), Result("absent", NoData, Str(ErrText)),
          NullResult}

\* Truthiness of result.success.
Truthy(success) == success = "true"

(***************************************************************************)
(* State                                                                   *)
(***************************************************************************)
VARIABLES
    generateBtn,   \* [disabled]
    btnText,       \* style.display of the label
    btnLoader,     \* style.display of the loader
    statusDiv,     \* [text, className, hidden]
    resultsDiv,    \* [hidden]
    view,          \* the elements displayResults fills
    handlers,      \* the runs of the click handler, by slot
    network,       \* the POSTs whose fetch promise is pending
    ev             \* the last step taken, and what it read

genVars ==
    <<generateBtn, btnText, btnLoader, statusDiv, resultsDiv, view, handlers,
      network, ev>>

\* The paths a page of the site is served under.
Pathnames ==
    {<<>>, <<"/">>, <<"/", "index.html">>, <<"/", "pages", "/", "game.html">>}
\* The href attributes of the navigation links, in document order.
LinkLayouts ==
    {<<"index.html", "game.html", "auth.html">>,
     <<"index.html", "/index.html", "index.html">>}

VARIABLES
    navUser,      \* let navUser
    navDisplay,   \* style.display of navUserInfo, navLogoutBtn, navLoginBtn
    navText,      \* textContent of navUsername, navElo
    present,      \* the navbar elements the page has
    navPc,        \* where initNavbar is
    navEv,        \* how initNavbar ended, and the data it read
    pathname,     \* window.location.pathname, "/" being a piece of its own
    links,        \* the href of each .navbar-link of the page
    active        \* the links whose classList holds active

navVars ==
    <<navUser, navDisplay, navText, present, navPc, navEv, pathname, links,
      active>>

\* How many confirmed logouts the model lets run at the same time.
MaxLogouts == 2
\* How many copies (clipboard writes and restore timers) may be pending.
MaxCopies == 3

VARIABLES
    hook,          \* typeof setPlayerOffline: "function" or "undefined"
    logouts,       \* the runs of handleNavLogout past the prompt, by slot
    logoutPosts,   \* the runs whose logout POST is pending
    localStorage,  \* the keys of window.localStorage
    location,      \* "page", or the href the window was sent to
    logoutEv       \* the last step of handleNavLogout, and what it read

logoutVars == <<hook, logouts, logoutPosts, localStorage, location, logoutEv>>

VARIABLES
    copyBtn,       \* textContent of the copy control
    clipboard,     \* the text last written to the clipboard
    writes,        \* the texts of the clipboard writes still pending
    timers,        \* the originalText of each pending setTimeout, oldest first
    copyEv         \* the last step of copyFEN

copyVars == <<copyBtn, clipboard, writes, timers, copyEv>>

VARIABLE alertText   \* the text of the last alert(), <<>> before any

vars == <<genVars, navVars, logoutVars, copyVars, alertText>>

Slots == 1..MaxInFlight

IdleHandler == [pc |-> "idle", log |-> <<>>]

EmptyView ==
    [fenText |-> <<>>, whiteMaterial |-> <<>>, blackMaterial |-> <<>>,
     materialDiff |-> <<>>, turn |-> <<>>, evalLine1 |-> <<>>,
     evalLine2 |-> <<>>, attempts |-> <<>>, timeSeconds |-> <<>>,
     lichessLink |-> <<>>, chesscomLink |-> <<>>]

Event(kind, outcome, tmin, tmax, log, result) ==
    [kind |-> kind, outcome |-> outcome, targetMin |-> tmin,
     targetMax |-> tmax, log |-> log, result |-> result]

GenInit ==
    /\ generateBtn = [disabled |-> FALSE]
    /\ btnText = "inline"
    /\ btnLoader = "none"
    /\ statusDiv = [text |-> <<>>, className |-> <<"status">>, hidden |-> TRUE]
    /\ resultsDiv = [hidden |-> TRUE]
    /\ view = EmptyView
    /\ handlers = [h \in Slots |-> IdleHandler]
    /\ network = {}
    /\ ev = Event("load", "none", NaN, NaN, <<>>, NullResult)

(***************************************************************************)
(* showStatus, displayResults                                              *)
(***************************************************************************)
showStatus(message, type) ==
    [text |-> message, className |-> <<"status", type>>, hidden |-> FALSE]

ValidationMessage ==
    <<"Erreur: L'evaluation min doit etre inferieure a l'evaluation max">>
ProgressMessage ==
    <<"Generation en cours... Cela peut prendre jusqu'a 2 minutes.">>
SuccessMessage == <<"Position generee avec succes !">>
\* Mutant of ServerErrorMessage: a fixed text, the server's error dropped.
ServerErrorGeneric(error) == <<"Erreur: ", "la generation a echoue">>

ServerErrorMessage(error) == <<"Erreur: ">> \o ToStr(error)
ConnectionMessage(message) ==
    <<"Erreur de connexion: ">> \o message
    \o <<". Verifiez que le backend est demarre.">>

LichessPrefix == <<"https://lichess.org/analysis/">>
ChesscomPrefix == <<"https://www.chess.com/analysis?fen=">>

\* Mutant of displayResults: the links are built from the raw FEN.
displayResultsRawFen(data, v, hidden) ==
    IF data.t = "undef" \/ data.attempts.t = "undef"
    THEN [view |-> v, hidden |-> hidden, threw |-> TRUE]
    ELSE [view |-> [fenText |-> TextContent(data.fen),
                    whiteMaterial |-> TextContent(data.white_material),
                    blackMaterial |-> TextContent(data.black_material),
                    materialDiff |-> TextContent(data.material_difference),
                    turn |-> TextContent(data.turn),
                    evalLine1 |-> TextContent(data.eval_line1),
                    evalLine2 |-> TextContent(data.eval_line2),
                    attempts |-> toLocaleString(data.attempts),
                    timeSeconds |-> ToStr(data.time_seconds) \o <<"s">>,
                    lichessLink |-> LichessPrefix \o ToStr(data.fen),
                    chesscomLink |-> ChesscomPrefix \o ToStr(data.fen)],
          hidden |-> FALSE, threw |-> FALSE]

\* displayResults(data) run on the elements v with the panel's hidden flag:
\* what it leaves behind, and whether it threw before its end.
displayResults(data, v, hidden) ==
    IF data.t = "undef"
    THEN [view |-> v, hidden |-> hidden, threw |-> TRUE]
    ELSE
      LET v1 == [v EXCEPT !.fenText = TextContent(data.fen),
                          !.whiteMaterial = TextContent(data.white_material),
                          !.blackMaterial = TextContent(data.black_material),
                          !.materialDiff = TextContent(data.material_difference),
                          !.turn = TextContent(data.turn),
                          !.evalLine1 = TextContent(data.eval_line1),
                          !.evalLine2 = TextContent(data.eval_line2)]
      IN  IF data.attempts.t = "undef"
          THEN [view |-> v1, hidden |-> hidden, threw |-> TRUE]
          ELSE
            LET fenEncoded == encodeURIComponent(data.fen)
            IN  [view |-> [v1 EXCEPT
                     !.attempts = toLocaleString(data.attempts),
                     !.timeSeconds = ToStr(data.time_seconds) \o <<"s">>,
                     !.lichessLink = LichessPrefix \o fenEncoded,
                     !.chesscomLink = ChesscomPrefix \o fenEncoded],
                 hidden |-> FALSE, threw |-> FALSE]

(***************************************************************************)
(* The click handler of generateBtn                                        *)
(***************************************************************************)
\* Mutant of ClickDelivered: a disabled button still receives clicks.
ClickAlwaysDelivered == TRUE

\* A disabled button receives no click event.
ClickDelivered == ~generateBtn.disabled

\* Mutant of ValidationFails: > written for >=.
ValidationFailsStrict(targetMin, targetMax) ==
    ~targetMin.nan /\ ~targetMax.nan /\ targetMin.n > targetMax.n

\* The validation of the handler: if (targetMin >= targetMax).
ValidationFails(targetMin, targetMax) == JsGE(targetMin, targetMax)

\* JSON.stringify({target_min, target_max, max_attempts}).
RequestBody(targetMin, targetMax, maxAttempts) ==
    [target_min |-> JsonNumber(targetMin), target_max |-> JsonNumber(targetMax),
     max_attempts |-> JsonNumber(maxAttempts)]

FreeSlot == CHOOSE h \in Slots :
    /\ handlers[h].pc = "idle"
    /\ \A g \in Slots : handlers[g].pc = "idle" => h <= g

\* Mutant of StartLoading: the button is left enabled.
StartLoadingButtonEnabled ==
    /\ btnText' = "none"
    /\ btnLoader' = "inline-block"
    /\ resultsDiv' = [hidden |-> TRUE]
    /\ statusDiv' = showStatus(ProgressMessage, "info")
    /\ UNCHANGED generateBtn

\* Mutant of StartLoading: the results panel is left as it is.
StartLoadingKeepsResults ==
    /\ generateBtn' = [disabled |-> TRUE]
    /\ btnText' = "none"
    /\ btnLoader' = "inline-block"
    /\ statusDiv' = showStatus(ProgressMessage, "info")
    /\ UNCHANGED resultsDiv

\* Disable the button, show the loader, hide the results, announce the wait.
StartLoading ==
    /\ generateBtn' = [disabled |-> TRUE]
    /\ btnText' = "none"
    /\ btnLoader' = "inline-block"
    /\ resultsDiv' = [hidden |-> TRUE]
    /\ statusDiv' = showStatus(ProgressMessage, "info")

\* Mutant of FinallyBlock: the loader is not hidden again.
FinallyKeepsLoader ==
    /\ generateBtn' = [disabled |-> FALSE]
    /\ btnText' = "inline"
    /\ UNCHANGED btnLoader

\* The finally block.
FinallyBlock ==
    /\ generateBtn' = [disabled |-> FALSE]
    /\ btnText' = "inline"
    /\ btnLoader' = "none"

\* The catch block's status for an exception with the given message.
CatchStatus(message) == showStatus(ConnectionMessage(message), "error")

FetchErrorText == <<"Failed to fetch">>
SyntaxErrorText == <<"Unexpected token < in JSON at position 0">>
TypeErrorText == <<"Cannot read properties of undefined">>

\* The statements of the try block after result is known, run on the
\* elements v: what they leave behind and which way they left.
TryBody(result, v, hidden) ==
    IF result.isNull
    THEN [status |-> CatchStatus(TypeErrorText), view |-> v, hidden |-> hidden,
          outcome |-> "nullResult"]
    ELSE IF Truthy(result.success)
    THEN LET d == displayResults(result.data, v, hidden)
         IN  IF d.threw
             THEN [status |-> CatchStatus(TypeErrorText), view |-> d.view,
                   hidden |-> d.hidden, outcome |-> "renderThrew"]
             ELSE [status |-> showStatus(SuccessMessage, "success"),
                   view |-> d.view, hidden |-> d.hidden, outcome |-> "success"]
    ELSE [status |-> showStatus(ServerErrorMessage(result.error), "error"),
          view |-> v, hidden |-> hidden, outcome |-> "serverError"]

\* Mutant of RejectClick: the results panel is hidden before the validation.
RejectClickHidesResults ==
    /\ statusDiv' = showStatus(ValidationMessage, "error")
    /\ resultsDiv' = [hidden |-> TRUE]
    /\ UNCHANGED <<generateBtn, btnText, btnLoader, view, handlers, network>>

\* The branch of a failed validation: a status message, then return.
RejectClick ==
    /\ statusDiv' = showStatus(ValidationMessage, "error")
    /\ UNCHANGED <<generateBtn, btnText, btnLoader, resultsDiv, view, handlers,
                   network>>

\* The handler up to its first await: validation, loading state, fetch.
Click(minText, maxText, attemptsText) ==
    /\ ClickDelivered
    /\ \E h \in Slots : handlers[h].pc = "idle"
    /\ LET targetMin == parseInt(minText)
           targetMax == parseInt(maxText)
           maxAttempts == parseInt(attemptsText)
       IN  IF ValidationFails(targetMin, targetMax)
           THEN /\ RejectClick
                /\ ev' = Event("rejected", "none", targetMin, targetMax, <<>>,
                               NullResult)
           ELSE /\ StartLoading
                /\ handlers' = [handlers EXCEPT ![FreeSlot] =
                       [pc |-> "fetch", log |-> <<"disable", "post">>]]
                /\ network' = network \cup
                       {[slot |-> FreeSlot,
                         body |-> RequestBody(targetMin, targetMax, maxAttempts)]}
                /\ ev' = Event("dispatched", "none", targetMin, targetMax,
                               <<"disable", "post">>, NullResult)
                /\ UNCHANGED view
    /\ UNCHANGED <<navVars, logoutVars, copyVars, alertText>>

\* The end of a run of the handler in slot h.
Finish(h, outcome, lastStep, result) ==
    /\ FinallyBlock
    /\ handlers' = [handlers EXCEPT ![h] = IdleHandler]
    /\ ev' = Event("finished", outcome, NaN, NaN,
                   handlers[h].log \o <<lastStep, "enable">>, result)

\* fetch resolves with a response: the handler goes on to response.json().
FetchResolved(h) ==
    /\ handlers[h].pc = "fetch"
    /\ handlers' = [handlers EXCEPT ![h] =
           [pc |-> "json", log |-> Append(handlers[h].log, "response")]]
    /\ network' = {r \in network : r.slot # h}
    /\ ev' = Event("response", "none", NaN, NaN, handlers'[h].log, NullResult)
    /\ UNCHANGED <<generateBtn, btnText, btnLoader, statusDiv, resultsDiv, view>>
    /\ UNCHANGED <<navVars, logoutVars, copyVars, alertText>>

\* fetch rejects: catch, finally.
FetchRejected(h) ==
    /\ handlers[h].pc = "fetch"
    /\ network' = {r \in network : r.slot # h}
    /\ statusDiv' = CatchStatus(FetchErrorText)
    /\ Finish(h, "fetchRejected", "reject", NullResult)
    /\ UNCHANGED <<resultsDiv, view, navVars, logoutVars, copyVars,
                   alertText>>

\* response.json() rejects (the body is not JSON): catch, finally.
JsonRejected(h) ==
    /\ handlers[h].pc = "json"
    /\ statusDiv' = CatchStatus(SyntaxErrorText)
    /\ Finish(h, "jsonRejected", "unparsable", NullResult)
    /\ UNCHANGED <<resultsDiv, view, network, navVars, logoutVars, copyVars,
                   alertText>>

\* response.json() resolves with result: the rest of the try block, finally.
JsonResolved(h, result) ==
    /\ handlers[h].pc = "json"
    /\ LET out == TryBody(result, view, resultsDiv.hidden)
       IN  /\ statusDiv' = out.status
           /\ view' = out.view
           /\ resultsDiv' = [hidden |-> out.hidden]
           /\ Finish(h, out.outcome, "parsed", result)
    /\ UNCHANGED <<network, navVars, logoutVars, copyVars,
                   alertText>>

GenNext ==
    \/ \E a \in FieldTexts, b \in FieldTexts, c \in AttemptTexts : Click(a, b, c)
    \/ \E h \in Slots : FetchResolved(h)
    \/ \E h \in Slots : FetchRejected(h)
    \/ \E h \in Slots : JsonRejected(h)
    \/ \E h \in Slots, r \in GenerateResults : JsonResolved(h, r)


(***************************************************************************)
(* The navigation session widget                                           *)
(***************************************************************************)
\* data.user of a session check.
UserRecord(username, elo) ==
    [t |-> "obj", username |-> Str(username), elo |-> Num(elo)]
NoUser == [t |-> "undef", username |-> Undef, elo |-> Undef]
NullUser == [t |-> "null", username |-> Undef, elo |-> Undef]
EmptyUser == [t |-> "obj", username |-> Undef, elo |-> Undef]
Users == {UserRecord(<<"alice">>, 1500), UserRecord(<<"bob">>, 800)}

\* The value response.json() resolves to in initNavbar.
AuthData(success, user) == [isNull |-> FALSE, success |-> success, user |-> user]
NullAuthData == [isNull |-> TRUE, success |-> "absent", user |-> NoUser]
AuthResults ==
    {AuthData("true", u) : u \in Users}
    \cup {AuthData("true", NoUser), AuthData("true", NullUser),
          AuthData("true", EmptyUser), AuthData("false", NoUser),
          AuthData("absent", NoUser), NullAuthData}

NavElements ==
    {"navUserInfo", "navLogoutBtn", "navLoginBtn", "navUsername", "navElo"}


NavInit ==
    /\ navUser = NullUser
    /\ navDisplay = [navUserInfo |-> "", navLogoutBtn |-> "", navLoginBtn |-> ""]
    /\ navText = [navUsername |-> <<>>, navElo |-> <<>>]
    /\ present \in SUBSET NavElements
    /\ navPc = "loading"
    /\ navEv = [outcome |-> "none", data |-> NullAuthData]
    /\ pathname \in Pathnames
    /\ links \in LinkLayouts
    /\ active \in {{}, {Len(links)}}

\* if (el) el.style.display = value
SetDisplay(d, el, value) == IF el \in present THEN [d EXCEPT ![el] = value] ELSE d
\* if (el) el.textContent = value
SetText(tx, el, value) == IF el \in present THEN [tx EXCEPT ![el] = value] ELSE tx

\* Reading a property of null or undefined throws.
Nullish(v) == v.t \in {"undef", "null"}

\* Mutant of showAuthenticatedNavbar: the login control is not hidden.
showAuthenticatedNavbarKeepsLogin(user, d, tx) ==
    LET d1 == SetDisplay(SetDisplay(d, "navUserInfo", "flex"),
                         "navLogoutBtn", "inline-block")
    IN  IF ("navUsername" \in present \/ "navElo" \in present) /\ Nullish(user)
        THEN [display |-> d1, text |-> tx, threw |-> TRUE]
        ELSE [display |-> d1,
              text |-> SetText(SetText(tx, "navUsername",
                                       TextContent(user.username)),
                               "navElo", <<"ELO: ">> \o ToStr(user.elo)),
              threw |-> FALSE]

\* showAuthenticatedNavbar(user) on displays d and texts tx: what it leaves
\* behind, and whether it threw before its end.
showAuthenticatedNavbar(user, d, tx) ==
    LET d1 == SetDisplay(SetDisplay(SetDisplay(d, "navUserInfo", "flex"),
                                    "navLogoutBtn", "inline-block"),
                         "navLoginBtn", "none")
    IN  IF "navUsername" \in present /\ Nullish(user)
        THEN [display |-> d1, text |-> tx, threw |-> TRUE]
        ELSE LET t1 == SetText(tx, "navUsername", TextContent(user.username))
             IN  IF "navElo" \in present /\ Nullish(user)
                 THEN [display |-> d1, text |-> t1, threw |-> TRUE]
                 ELSE [display |-> d1,
                       text |-> SetText(t1, "navElo",
                                        <<"ELO: ">> \o ToStr(user.elo)),
                       threw |-> FALSE]

showUnauthenticatedNavbar(d) ==
    SetDisplay(SetDisplay(SetDisplay(d, "navUserInfo", "none"),
                          "navLogoutBtn", "none"),
               "navLoginBtn", "inline-block")

\* The try block of initNavbar once data is known, with its catch.
InitNavbarBody(data, user, d, tx) ==
    IF data.isNull
    THEN [user |-> user, display |-> showUnauthenticatedNavbar(d), text |-> tx,
          outcome |-> "nullData"]
    ELSE IF Truthy(data.success)
    THEN LET r == showAuthenticatedNavbar(data.user, d, tx)
         IN  IF r.threw
             THEN [user |-> data.user,
                   display |-> showUnauthenticatedNavbar(r.display),
                   text |-> r.text, outcome |-> "renderThrew"]
             ELSE [user |-> data.user, display |-> r.display, text |-> r.text,
                   outcome |-> "authenticated"]
    ELSE [user |-> user, display |-> showUnauthenticatedNavbar(d), text |-> tx,
          outcome |-> "notLoggedIn"]

\* pathname.split('/').pop(): what follows the last "/".
RECURSIVE LastSegment(_)
LastSegment(path) ==
    IF path = <<>> THEN ""
    ELSE IF path[Len(path)] = "/" THEN ""
    ELSE IF Len(path) = 1 THEN path[1]
    ELSE IF path[Len(path) - 1] = "/" THEN path[Len(path)]
    ELSE LastSegment(SubSeq(path, 1, Len(path) - 1))

\* Mutant of ActiveLinks: no index.html for an empty file name.
ActiveLinksNoDefault(path, hrefs) ==
    {i \in 1..Len(hrefs) : hrefs[i] = LastSegment(path)}

\* The links setActiveNavLink leaves with the active class.
ActiveLinks(path, hrefs) ==
    LET segment == LastSegment(path)
        currentPage == IF segment = "" THEN "index.html" ELSE segment
    IN  {i \in 1..Len(hrefs) :
            \/ hrefs[i] = currentPage
            \/ (currentPage = "" /\ hrefs[i] = "index.html")
            \/ (currentPage = "/" /\ hrefs[i] = "index.html")}

\* DOMContentLoaded: initNavbar runs up to its fetch, then setActiveNavLink.
DOMContentLoaded ==
    /\ navPc = "loading"
    /\ navPc' = "fetch"
    /\ active' = ActiveLinks(pathname, links)
    /\ UNCHANGED <<navUser, navDisplay, navText, present, navEv, pathname,
                   links, genVars,
                   logoutVars, copyVars, alertText>>

NavFetchResolved ==
    /\ navPc = "fetch"
    /\ navPc' = "json"
    /\ UNCHANGED <<navUser, navDisplay, navText, present, navEv, pathname,
                   links, active, genVars,
                   logoutVars, copyVars, alertText>>

\* The catch block of initNavbar.
\* Mutant of InitNavbarCatch: the failure is also written to the status line
\* of the generation panel.
InitNavbarCatchShowsStatus(outcome) ==
    /\ navDisplay' = showUnauthenticatedNavbar(navDisplay)
    /\ navPc' = "done"
    /\ navEv' = [outcome |-> outcome, data |-> NullAuthData]
    /\ statusDiv' = showStatus(ConnectionMessage(FetchErrorText), "error")
    /\ UNCHANGED <<navUser, navText, present, pathname, links, active,
                   generateBtn, btnText, btnLoader, resultsDiv, view, handlers,
                   network, ev, logoutVars, copyVars, alertText>>

InitNavbarCatch(outcome) ==
    /\ navDisplay' = showUnauthenticatedNavbar(navDisplay)
    /\ navPc' = "done"
    /\ navEv' = [outcome |-> outcome, data |-> NullAuthData]
    /\ UNCHANGED <<navUser, navText, present, pathname, links, active, genVars,
                   logoutVars, copyVars, alertText>>

NavFetchRejected ==
    /\ navPc = "fetch"
    /\ InitNavbarCatch("fetchRejected")

NavJsonRejected ==
    /\ navPc = "json"
    /\ InitNavbarCatch("jsonRejected")

NavJsonResolved(data) ==
    /\ navPc = "json"
    /\ LET out == InitNavbarBody(data, navUser, navDisplay, navText)
       IN  /\ navUser' = out.user
           /\ navDisplay' = out.display
           /\ navText' = out.text
           /\ navEv' = [outcome |-> out.outcome, data |-> data]
    /\ navPc' = "done"
    /\ UNCHANGED <<present, pathname, links, active, genVars,
                   logoutVars, copyVars, alertText>>

(***************************************************************************)
(* handleNavLogout                                                         *)
(***************************************************************************)
LogoutSlots == 1..MaxLogouts

IdleLogout == [pc |-> "idle", log |-> <<>>]

LogoutErrText == <<"Not logged in">>

\* The value response.json() resolves to in handleNavLogout.
LogoutData(success, error) == [isNull |-> FALSE, success |-> success, error |-> error]
NullLogoutData == [isNull |-> TRUE, success |-> "absent", error |-> Undef]
LogoutResults ==
    {LogoutData("true", Undef), LogoutData("false", Str(LogoutErrText)),
     LogoutData("false", Undef), NullLogoutData}

LogoutEvent(kind, outcome, log, data) ==
    [kind |-> kind, outcome |-> outcome, log |-> log, data |-> data]

LogoutInit ==
    /\ hook \in {"function", "undefined"}
    /\ logouts = [s \in LogoutSlots |-> IdleLogout]
    /\ logoutPosts = {}
    /\ localStorage = {"gameState", "theme"}
    /\ location = "page"
    /\ logoutEv = LogoutEvent("none", "none", <<>>, NullLogoutData)
    /\ alertText = <<>>

\* Mutant of LogoutErrorAlert: the server's error string is not shown.
LogoutErrorAlertGeneric(error) == <<"Erreur de connexion au serveur">>

\* alert('Erreur de deconnexion: ' + data.error)
LogoutErrorAlert(error) == <<"Erreur de deconnexion: ">> \o ToStr(error)
\* alert('Erreur de connexion au serveur')
LogoutConnectionAlert == <<"Erreur de connexion au serveur">>

FreeLogoutSlot == CHOOSE s \in LogoutSlots :
    /\ logouts[s].pc = "idle"
    /\ \A r \in LogoutSlots : logouts[r].pc = "idle" => s <= r

\* What every step of handleNavLogout leaves alone.
LogoutFrame ==
    UNCHANGED <<hook, navUser, navDisplay, navText, present, navPc, navEv,
                pathname, links, active, genVars, copyVars>>

\* Mutant of HookDefined: the hook is never looked for.
HookIgnored == FALSE

\* typeof setPlayerOffline === 'function'
HookDefined == hook = "function"

\* Mutant of DeclineLogout: the storage is cleared before the prompt.
DeclineLogoutClears ==
    /\ logoutEv' = LogoutEvent("declined", "none", <<>>, NullLogoutData)
    /\ localStorage' = {}
    /\ UNCHANGED <<logouts, logoutPosts, location, alertText>>

\* if (!confirm(...)) return;
DeclineLogout ==
    /\ logoutEv' = LogoutEvent("declined", "none", <<>>, NullLogoutData)
    /\ UNCHANGED <<logouts, logoutPosts, localStorage, location, alertText>>

\* fetch(`${API_URL}/api/auth/logout`, {method: 'POST', ...}) of the run in s.
PostLogout(s) == logoutPosts' = logoutPosts \cup {s}

\* handleNavLogout up to its first await, the prompt answered by confirmed.
HandleNavLogout(confirmed) ==
    /\ \E s \in LogoutSlots : logouts[s].pc = "idle"
    /\ IF ~confirmed
       THEN DeclineLogout
       ELSE /\ IF HookDefined
               THEN /\ logouts' = [logouts EXCEPT ![FreeLogoutSlot] =
                           [pc |-> "hook", log |-> <<"hook">>]]
                    /\ UNCHANGED logoutPosts
               ELSE /\ logouts' = [logouts EXCEPT ![FreeLogoutSlot] =
                           [pc |-> "fetch", log |-> <<"post">>]]
                    /\ PostLogout(FreeLogoutSlot)
            /\ logoutEv' = LogoutEvent("confirmed", "none",
                                       logouts'[FreeLogoutSlot].log,
                                       NullLogoutData)
            /\ UNCHANGED <<localStorage, location, alertText>>
    /\ LogoutFrame

\* await setPlayerOffline() completes: the logout POST is sent.
HookResolved(s) ==
    /\ logouts[s].pc = "hook"
    /\ logouts' = [logouts EXCEPT ![s] =
           [pc |-> "fetch", log |-> logouts[s].log \o <<"hookDone", "post">>]]
    /\ PostLogout(s)
    /\ logoutEv' = LogoutEvent("hookDone", "none", logouts'[s].log,
                               NullLogoutData)
    /\ UNCHANGED <<localStorage, location, alertText>>
    /\ LogoutFrame

\* Mutant of LogoutCatch: the error is logged and no alert is shown.
LogoutCatchSilent(s, outcome, lastStep) ==
    /\ logouts' = [logouts EXCEPT ![s] = IdleLogout]
    /\ logoutEv' = LogoutEvent("finished", outcome,
                               Append(logouts[s].log, lastStep), NullLogoutData)
    /\ UNCHANGED <<localStorage, location, alertText>>

\* The catch block of handleNavLogout, ending the run in s.
LogoutCatch(s, outcome, lastStep) ==
    /\ alertText' = LogoutConnectionAlert
    /\ logouts' = [logouts EXCEPT ![s] = IdleLogout]
    /\ logoutEv' = LogoutEvent("finished", outcome,
                               Append(logouts[s].log, lastStep), NullLogoutData)
    /\ UNCHANGED <<localStorage, location>>

\* setPlayerOffline() throws or its promise rejects.
HookRejected(s) ==
    /\ logouts[s].pc = "hook"
    /\ LogoutCatch(s, "hookRejected", "hookThrew")
    /\ UNCHANGED logoutPosts
    /\ LogoutFrame

LogoutFetchResolved(s) ==
    /\ logouts[s].pc = "fetch"
    /\ logouts' = [logouts EXCEPT ![s] =
           [pc |-> "json", log |-> Append(logouts[s].log, "response")]]
    /\ logoutPosts' = logoutPosts \ {s}
    /\ logoutEv' = LogoutEvent("response", "none", logouts'[s].log,
                               NullLogoutData)
    /\ UNCHANGED <<localStorage, location, alertText>>
    /\ LogoutFrame

LogoutFetchRejected(s) ==
    /\ logouts[s].pc = "fetch"
    /\ logoutPosts' = logoutPosts \ {s}
    /\ LogoutCatch(s, "fetchRejected", "reject")
    /\ LogoutFrame

LogoutJsonRejected(s) ==
    /\ logouts[s].pc = "json"
    /\ LogoutCatch(s, "jsonRejected", "unparsable")
    /\ UNCHANGED logoutPosts
    /\ LogoutFrame

\* Mutant of LogoutBody: the storage is cleared whatever the answer.
LogoutBodyClearsOnError(data, storage, href, shown) ==
    IF data.isNull
    THEN [storage |-> storage, href |-> href, alert |-> LogoutConnectionAlert,
          outcome |-> "nullData"]
    ELSE IF Truthy(data.success)
    THEN [storage |-> {}, href |-> "auth.html", alert |-> shown,
          outcome |-> "success"]
    ELSE [storage |-> {}, href |-> href,
          alert |-> LogoutErrorAlert(data.error), outcome |-> "serverError"]

\* if (data.success) {...} else {...} once data is known: what it does to the
\* storage, the location and the alert.
LogoutBody(data, storage, href, shown) ==
    IF data.isNull
    THEN [storage |-> storage, href |-> href, alert |-> LogoutConnectionAlert,
          outcome |-> "nullData"]
    ELSE IF Truthy(data.success)
    THEN [storage |-> {}, href |-> "auth.html", alert |-> shown,
          outcome |-> "success"]
    ELSE [storage |-> storage, href |-> href,
          alert |-> LogoutErrorAlert(data.error), outcome |-> "serverError"]

LogoutJsonResolved(s, data) ==
    /\ logouts[s].pc = "json"
    /\ LET out == LogoutBody(data, localStorage, location, alertText)
       IN  /\ localStorage' = out.storage
           /\ location' = out.href
           /\ alertText' = out.alert
           /\ logoutEv' = LogoutEvent("finished", out.outcome,
                                      Append(logouts[s].log, "parsed"), data)
    /\ logouts' = [logouts EXCEPT ![s] = IdleLogout]
    /\ UNCHANGED logoutPosts
    /\ LogoutFrame

\* A call of setActiveNavLink() after the page has loaded.
SetActiveNavLink ==
    /\ navPc # "loading"
    /\ active' = ActiveLinks(pathname, links)
    /\ UNCHANGED <<navUser, navDisplay, navText, present, navPc, navEv,
                   pathname, links, genVars, logoutVars, copyVars, alertText>>

LogoutNext ==
    \/ \E confirmed \in BOOLEAN : HandleNavLogout(confirmed)
    \/ \E s \in LogoutSlots : HookResolved(s)
    \/ \E s \in LogoutSlots : HookRejected(s)
    \/ \E s \in LogoutSlots : LogoutFetchResolved(s)
    \/ \E s \in LogoutSlots : LogoutFetchRejected(s)
    \/ \E s \in LogoutSlots : LogoutJsonRejected(s)
    \/ \E s \in LogoutSlots, data \in LogoutResults : LogoutJsonResolved(s, data)

NavNext ==
    \/ DOMContentLoaded
    \/ NavFetchResolved
    \/ NavFetchRejected
    \/ NavJsonRejected
    \/ \E data \in AuthResults : NavJsonResolved(data)
    \/ SetActiveNavLink

(***************************************************************************)
(* copyFEN                                                                 *)
(***************************************************************************)
\* The label of the copy control as the page is served.
CopyLabel == <<"Copier la FEN">>
\* btn.textContent = 'Copie !'
CopiedLabel == <<"Copie !">>

\* alert('Erreur lors de la copie: ' + err)
CopyErrorAlert(err) == <<"Erreur lors de la copie: ">> \o err
ClipboardErrorText == <<"NotAllowedError: Write permission denied.">>

CopyInit ==
    /\ copyBtn = CopyLabel
    /\ clipboard = <<>>
    /\ writes = <<>>
    /\ timers = <<>>
    /\ copyEv = "none"

RemoveAt(seq, i) == SubSeq(seq, 1, i - 1) \o SubSeq(seq, i + 1, Len(seq))

\* What every step of copyFEN leaves alone.
CopyFrame == UNCHANGED <<genVars, navVars, logoutVars>>

\* copyFEN() up to the return of navigator.clipboard.writeText(fenText).
CopyFEN ==
    /\ Len(writes) + Len(timers) < MaxCopies
    /\ writes' = Append(writes, view.fenText)
    /\ copyEv' = "clicked"
    /\ UNCHANGED <<copyBtn, clipboard, timers, alertText>>
    /\ CopyFrame

\* The then callback: const btn = event.target reads window.event, which
\* is the click event only while that event is being dispatched; read later
\* it is undefined, event.target throws and the catch callback runs.
CopyThen(eventDefined) ==
    IF eventDefined
    THEN /\ timers' = Append(timers, copyBtn)
         /\ copyBtn' = CopiedLabel
         /\ copyEv' = "copied"
         /\ UNCHANGED alertText
    ELSE /\ alertText' = CopyErrorAlert(<<"TypeError: ">> \o TypeErrorText)
         /\ copyEv' = "eventUndefined"
         /\ UNCHANGED <<copyBtn, timers>>

\* The promise of the i-th pending writeText fulfils.
WriteResolved(i, eventDefined) ==
    /\ i \in 1..Len(writes)
    /\ clipboard' = writes[i]
    /\ writes' = RemoveAt(writes, i)
    /\ CopyThen(eventDefined)
    /\ CopyFrame

\* The promise of the i-th pending writeText rejects.
WriteRejected(i) ==
    /\ i \in 1..Len(writes)
    /\ writes' = RemoveAt(writes, i)
    /\ alertText' = CopyErrorAlert(ClipboardErrorText)
    /\ copyEv' = "writeRejected"
    /\ UNCHANGED <<copyBtn, clipboard, timers>>
    /\ CopyFrame

\* setTimeout(() => { btn.textContent = originalText; }, 2000): the timers
\* have one delay, so they fire in the order they were set.
TimerFired ==
    /\ timers # <<>>
    /\ copyBtn' = Head(timers)
    /\ timers' = Tail(timers)
    /\ copyEv' = "restored"
    /\ UNCHANGED <<clipboard, writes, alertText>>
    /\ CopyFrame

CopyNext ==
    \/ CopyFEN
    \/ \E i \in 1..MaxCopies, e \in BOOLEAN : WriteResolved(i, e)
    \/ \E i \in 1..MaxCopies : WriteRejected(i)
    \/ TimerFired

Init == GenInit /\ NavInit /\ LogoutInit /\ CopyInit

\* The home page, with the whole navbar.
PageInit ==
    /\ Init
    /\ present = NavElements
    /\ pathname = <<"/", "index.html">>
    /\ links = <<"index.html", "game.html", "auth.html">>
    /\ active = {}

\* The navigation widget alone, on every page layout.
NavSpec == Init /\ [][NavNext]_vars

WidgetNext == NavNext \/ LogoutNext

\* The navigation widget with its logout control, on the home page.
LogoutSpec == PageInit /\ [][WidgetNext]_vars

\* The generation panel alone, on the home page.
GenSpec == PageInit /\ [][GenNext]_vars

\* The home page once a generation has ended with its results rendered.
RenderedInit ==
    /\ \E r \in WellFormedResults :
          /\ Truthy(r.success)
          /\ LET out == TryBody(r, EmptyView, TRUE)
             IN  /\ statusDiv = out.status
                 /\ view = out.view
                 /\ resultsDiv = [hidden |-> out.hidden]
                 /\ ev = Event("finished", out.outcome, NaN, NaN,
                               <<"disable", "post", "response", "parsed",
                                 "enable">>, r)
    /\ generateBtn = [disabled |-> FALSE]
    /\ btnText = "inline"
    /\ btnLoader = "none"
    /\ handlers = [h \in Slots |-> IdleHandler]
    /\ network = {}
    /\ NavInit
    /\ present = NavElements
    /\ pathname = <<"/", "index.html">>
    /\ links = <<"index.html", "game.html", "auth.html">>
    /\ active = {}
    /\ LogoutInit
    /\ CopyInit

\* The copy control of a rendered results panel.
CopySpec == RenderedInit /\ [][CopyNext]_vars

\* The field contents the two components are interleaved over: in order,
\* out of order, and not a number.
PageFields ==
    {<<<<"1">>, <<"2">>>>, <<<<"2">>, <<"1">>>>, <<<<>>, <<"1">>>>}

PageGenNext ==
    \/ \E f \in PageFields : Click(f[1], f[2], <<"5">>)
    \/ \E h \in Slots : FetchResolved(h)
    \/ \E h \in Slots : FetchRejected(h)
    \/ \E h \in Slots : JsonRejected(h)
    \/ \E h \in Slots, r \in GenerateResults : JsonResolved(h, r)

Next == PageGenNext \/ NavNext \/ LogoutNext

\* Both components on the home page.
Spec == PageInit /\ [][Next]_vars

(***************************************************************************)
(* Properties of the generation panel (checked under GenSpec)              *)
(***************************************************************************)
ErrorStatusShown ==
    /\ statusDiv.className = <<"status", "error">>
    /\ ~statusDiv.hidden
    /\ statusDiv.text # <<>>

IdleButton ==
    /\ ~generateBtn.disabled
    /\ btnText = "inline"
    /\ btnLoader = "none"

\* The pieces of text from position i on.
Suffix(text, i) == SubSeq(text, i, Len(text))

\* sub occurs in text as a run of consecutive pieces.
Contains(text, sub) ==
    \E i \in 1..(Len(text) - Len(sub) + 1) :
        SubSeq(text, i, i + Len(sub) - 1) = sub

Occurrences(log, e) == Cardinality({i \in 1..Len(log) : log[i] = e})

\* C1: a click whose parsed inputs satisfy target_min >= target_max issues
\* no network call (no request is added and no handler run is left
\* waiting) and leaves an error-type status message on display.
C1_OutOfOrderClickIssuesNoCall ==
    [][(/\ ev'.kind \in {"rejected", "dispatched"}
        /\ ~ev'.targetMin.nan /\ ~ev'.targetMax.nan
        /\ ev'.targetMin.n >= ev'.targetMax.n)
       => (/\ network' = network
           /\ handlers' = handlers
           /\ ErrorStatusShown')]_vars

C1_Witness ==
    /\ ev.kind = "rejected"
    /\ ~ev.targetMin.nan /\ ~ev.targetMax.nan
    /\ ev.targetMin.n > ev.targetMax.n
    /\ network = {}
    /\ ErrorStatusShown

\* C2: every POST in the network layer carries integer target_min and
\* target_max with target_min < target_max (so a click with a malformed
\* or out-of-order field never reaches the network).
C2_PostsCarryOrderedIntegers ==
    \A r \in network :
        /\ r.body.target_min.t = "int"
        /\ r.body.target_max.t = "int"
        /\ r.body.target_min.n < r.body.target_max.n

\* C3: a click rejected by the validation changes the status message only:
\* the button, the label, the loader, the results panel and what it shows
\* are as before the click.
C3_RejectedClickTouchesStatusOnly ==
    [][(\/ ev'.kind = "rejected"
        \/ (/\ ev'.kind = "dispatched"
            /\ ~ev'.targetMin.nan /\ ~ev'.targetMax.nan
            /\ ev'.targetMin.n >= ev'.targetMax.n))
       => UNCHANGED <<generateBtn, btnText, btnLoader, resultsDiv, view>>]_vars

C3_Witness ==
    /\ ev.kind = "rejected"
    /\ ~resultsDiv.hidden
    /\ view.fenText # <<>>
    /\ IdleButton
    /\ ErrorStatusShown

\* C4: whatever the outcome of the request of a click that passed the
\* validation, the handler ends with the button enabled, the label shown and
\* the loader hidden.
C4_HandlerEndsIdle == ev.kind = "finished" => IdleButton

C4_Witness ==
    /\ ev.kind = "finished"
    /\ ev.outcome = "renderThrew"
    /\ IdleButton

\* C5: in one run of the handler the button is disabled, then one POST is
\* issued, then the request settles, then the button is enabled, each once:
\* while the run waits the button is disabled and its one request is pending
\* (or answered), and no request is left or re-issued once it has ended.
C5_DisablePostEnableInOrder ==
    /\ \A h \in Slots :
        /\ handlers[h].pc = "fetch" =>
              /\ generateBtn.disabled
              /\ Cardinality({r \in network : r.slot = h}) = 1
              /\ handlers[h].log = <<"disable", "post">>
        /\ handlers[h].pc = "json" =>
              /\ generateBtn.disabled
              /\ {r \in network : r.slot = h} = {}
              /\ handlers[h].log = <<"disable", "post", "response">>
        /\ handlers[h].pc = "idle" => {r \in network : r.slot = h} = {}
    /\ ev.kind = "finished" =>
        /\ ~generateBtn.disabled
        /\ \A e \in {"disable", "post", "enable"} : Occurrences(ev.log, e) = 1
        /\ Occurrences(ev.log, "reject") + Occurrences(ev.log, "response") = 1
        /\ ev.log[1] = "disable"
        /\ ev.log[2] = "post"
        /\ ev.log[3] \in {"reject", "response"}
        /\ ev.log[Len(ev.log)] = "enable"

C5_Witness ==
    /\ ev.kind = "finished"
    /\ ev.outcome = "fetchRejected"
    /\ ev.log = <<"disable", "post", "reject", "enable">>
    /\ network = {}
    /\ ~generateBtn.disabled

\* The last run of the handler got a response and parsed its body.
ParsedResponse ==
    /\ ev.kind = "finished"
    /\ Contains(ev.log, <<"response", "parsed">>)

ConnectionFailureShown ==
    /\ ErrorStatusShown
    /\ statusDiv.text[1] = "Erreur de connexion: "
    /\ statusDiv.text[Len(statusDiv.text)]
           = ". Verifiez que le backend est demarre."

\* C6: after a response parsed with a falsy success flag the status is an
\* error-type message that contains the response's error string, and the
\* results panel is not revealed.
C6_ServerErrorEchoed ==
    (ParsedResponse /\ ~ev.result.isNull /\ ev.result.success # "true")
    => /\ ErrorStatusShown
       /\ ev.result.error.t = "str" => Contains(statusDiv.text, ev.result.error.s)
       /\ resultsDiv.hidden

C6_Witness ==
    /\ ParsedResponse
    /\ ev.result = Result("false", NoData, Str(ErrText))
    /\ Contains(statusDiv.text, ErrText)
    /\ resultsDiv.hidden

\* C7: the connection-failure message is on display after a run of the
\* handler exactly when the request itself threw or rejected (fetch rejected,
\* or the body was not JSON); a parsed response never produces it.
C7_ConnectionMessageOnlyOnTransportFailure ==
    ev.kind = "finished" =>
        (ConnectionFailureShown
            <=> (Contains(ev.log, <<"reject">>) \/ Contains(ev.log, <<"unparsable">>)))

RECURSIVE StripSeparators(_)
StripSeparators(text) ==
    IF text = <<>> THEN <<>>
    ELSE IF Head(text) = "," THEN StripSeparators(Tail(text))
    ELSE <<Head(text)>> \o StripSeparators(Tail(text))

RECURSIVE PercentDecode(_)
PercentDecode(s) ==
    IF s = <<>> THEN <<>>
    ELSE IF Head(s) = "%" /\ Len(s) >= 3
    THEN (CASE SubSeq(s, 2, 3) = <<"2", "F">> -> <<"/">>
            [] SubSeq(s, 2, 3) = <<"2", "0">> -> <<" ">>
            [] SubSeq(s, 2, 3) = <<"2", "5">> -> <<"%">>
            [] OTHER -> <<"?">>)
         \o PercentDecode(Suffix(s, 4))
    ELSE <<Head(s)>> \o PercentDecode(Tail(s))

\* text is the decimal writing of n.
ShowsNumber(text, n) ==
    /\ text # <<>>
    /\ \A i \in 1..Len(text) : IsDigit(text[i]) \/ (i = 1 /\ text[i] = "-")
    /\ parseInt(text) = IntValue(n)

\* text is n with a separator before every group of three digits.
ShowsGroupedNumber(text, n) ==
    /\ \A i \in 1..Len(text) : (text[i] = ",") <=> ((Len(text) - i + 1) % 4 = 0)
    /\ ShowsNumber(StripSeparators(text), n)

\* link is prefix followed by the percent-encoding of fen.
LinksTo(link, prefix, fen) ==
    /\ Len(link) > Len(prefix)
    /\ SubSeq(link, 1, Len(prefix)) = prefix
    /\ LET tail == Suffix(link, Len(prefix) + 1)
       IN  /\ \A i \in 1..Len(tail) : tail[i] \notin {"/", " ", "?", "#", "&"}
           /\ PercentDecode(tail) = fen

\* C8: after a well-formed response with success true every displayed field
\* holds the value of its field of data (attempts with group separators,
\* time_seconds followed by s), both links hold the percent-encoded FEN, the
\* results panel is visible and the status is the success message.
C8_SuccessRendersData ==
    (ParsedResponse /\ ev.result \in WellFormedResults
        /\ ev.result.success = "true")
    => LET data == ev.result.data
       IN  /\ view.fenText = data.fen.s
           /\ ShowsNumber(view.whiteMaterial, data.white_material.n)
           /\ ShowsNumber(view.blackMaterial, data.black_material.n)
           /\ ShowsNumber(view.materialDiff, data.material_difference.n)
           /\ view.turn = data.turn.s
           /\ view.evalLine1 = data.eval_line1.s
           /\ view.evalLine2 = data.eval_line2.s
           /\ ShowsGroupedNumber(view.attempts, data.attempts.n)
           /\ view.timeSeconds # <<>>
           /\ view.timeSeconds[Len(view.timeSeconds)] = "s"
           /\ ShowsNumber(SubSeq(view.timeSeconds, 1, Len(view.timeSeconds) - 1),
                          data.time_seconds.n)
           /\ LinksTo(view.lichessLink, LichessPrefix, data.fen.s)
           /\ LinksTo(view.chesscomLink, ChesscomPrefix, data.fen.s)
           /\ ~resultsDiv.hidden
           /\ statusDiv = [text |-> SuccessMessage,
                           className |-> <<"status", "success">>,
                           hidden |-> FALSE]

C8_Witness ==
    /\ ParsedResponse
    /\ ev.result.success = "true"
    /\ ev.result.data \in WellFormedReports
    /\ ev.result.data.fen.s = Fen1
    /\ view.attempts = <<"1", ",", "2", "3", "4", ",", "5", "6", "7">>
    /\ view.materialDiff = <<"-", "2">>
    /\ view.lichessLink
           = LichessPrefix \o <<"8", "%", "2", "F", "8", "%", "2", "0", "w">>
    /\ ~resultsDiv.hidden

(***************************************************************************)
(* Properties of the navigation widget (checked under NavSpec)             *)
(***************************************************************************)
\* What the navbar shows, for the elements the page has.
DisplayIs(el, value) == el \in present => navDisplay[el] = value
TextIs(el, value) == el \in present => navText[el] = value
Shown(el) == el \in present /\ navDisplay[el] # "none"

AuthenticatedNavbar ==
    /\ DisplayIs("navUserInfo", "flex")
    /\ DisplayIs("navLogoutBtn", "inline-block")
    /\ DisplayIs("navLoginBtn", "none")

UnauthenticatedNavbar ==
    /\ DisplayIs("navLoginBtn", "inline-block")
    /\ DisplayIs("navUserInfo", "none")
    /\ DisplayIs("navLogoutBtn", "none")

\* The session check answered success true with a user record {username, elo}.
SessionFound ==
    /\ navPc = "done"
    /\ ~navEv.data.isNull
    /\ navEv.data.success = "true"
    /\ navEv.data.user \in Users

\* C9: after a session check answering success true with a user record, the
\* record is the session user and the navbar is Authenticated: user-info and
\* logout shown, login hidden, the username shown, the rating shown as
\* "ELO: " followed by the elo.
C9_SessionFoundShowsUser ==
    SessionFound
    => /\ navUser = navEv.data.user
       /\ AuthenticatedNavbar
       /\ TextIs("navUsername", navEv.data.user.username.s)
       /\ "navElo" \in present =>
             /\ Len(navText.navElo) > 1
             /\ navText.navElo[1] = "ELO: "
             /\ ShowsNumber(Tail(navText.navElo), navEv.data.user.elo.n)

C9_Witness ==
    /\ SessionFound
    /\ present = NavElements
    /\ navUser = UserRecord(<<"alice">>, 1500)
    /\ navText = [navUsername |-> <<"alice">>,
                  navElo |-> <<"ELO: ", "1", "5", "0", "0">>]
    /\ navDisplay.navLoginBtn = "none"
    /\ navDisplay.navLogoutBtn = "inline-block"

\* C10: on a page that has the five navbar elements, after any outcome of
\* the session check other than a success response (failure flag, malformed
\* response such as success true without a usable user record, unparsable
\* body, rejected fetch) the navbar is Unauthenticated: login shown, user-info
\* and logout hidden; and initNavbar never ends with both the login and the
\* logout control shown.
C10_OtherOutcomesUnauthenticated ==
    (navPc = "done" /\ present = NavElements)
    => /\ ~SessionFound => UnauthenticatedNavbar
       /\ ~(Shown("navLoginBtn") /\ Shown("navLogoutBtn"))

(***************************************************************************)
(* Properties of the logout control (checked under LogoutSpec)             *)
(***************************************************************************)
\* A step of handleNavLogout: every one of them records itself in logoutEv.
LogoutStep == logoutEv' # logoutEv

LastOf(log) == log[Len(log)]

\* A run of handleNavLogout has just ended without a success answer: the
\* server said no, or something threw on the way.
LogoutRefused(e) ==
    /\ e.kind = "finished"
    /\ LastOf(e.log) = "parsed"
    /\ ~e.data.isNull
    /\ e.data.success # "true"
LogoutThrew(e) ==
    /\ e.kind = "finished"
    /\ \/ LastOf(e.log) \in {"hookThrew", "reject", "unparsable"}
       \/ (LastOf(e.log) = "parsed" /\ e.data.isNull)
LogoutGranted(e) ==
    /\ e.kind = "finished"
    /\ LastOf(e.log) = "parsed"
    /\ ~e.data.isNull
    /\ e.data.success = "true"

\* C11: a declined logout prompt has no side effect: the offline hook is not
\* called and no request is issued (no run of the handler is started, none
\* advances, no POST is added), the storage keeps its keys, the window stays
\* where it is, no alert is shown, and the session user and the navbar are
\* unchanged.
C11_DeclinedLogoutHasNoEffect ==
    [][(LogoutStep /\ logoutEv'.kind = "declined")
       => UNCHANGED <<logouts, logoutPosts, localStorage, location, alertText,
                      hook, navVars, genVars, copyVars>>]_vars

C11_Witness ==
    /\ logoutEv.kind = "declined"
    /\ navUser \in Users
    /\ localStorage # {}
    /\ location = "page"
    /\ logoutPosts = {}

\* C12: a confirmed logout answered with success true empties the storage
\* and sends the window to auth.html; and the storage or the location
\* changes in no other step: not on a declined prompt, not on a success
\* false answer, not on an exception.
C12_StorageClearedOnlyOnSuccess ==
    [][/\ (LogoutStep /\ LogoutGranted(logoutEv'))
          => (localStorage' = {} /\ location' = "auth.html")
       /\ (localStorage' # localStorage \/ location' # location)
          => (LogoutStep /\ LogoutGranted(logoutEv'))]_vars

C12_Witness ==
    /\ LogoutGranted(logoutEv)
    /\ localStorage = {}
    /\ location = "auth.html"

\* C13: in a confirmed logout with the offline hook defined the hook is
\* called once and has completed before the POST is issued (while the hook
\* runs the run has no POST pending, and a run that has posted shows hook,
\* hookDone, post in this order, each once); with no hook defined the POST
\* is the first thing the run does.
C13_HookCompletesBeforePost ==
    /\ \A s \in LogoutSlots :
          /\ logouts[s].pc = "hook"
             => (HookDefined /\ logouts[s].log = <<"hook">> /\ s \notin logoutPosts)
          /\ logouts[s].pc \in {"fetch", "json"}
             => /\ Occurrences(logouts[s].log, "post") = 1
                /\ IF hook = "function"
                   THEN /\ Len(logouts[s].log) >= 3
                        /\ SubSeq(logouts[s].log, 1, 3)
                               = <<"hook", "hookDone", "post">>
                        /\ Occurrences(logouts[s].log, "hook") = 1
                   ELSE logouts[s].log[1] = "post"
                        /\ Occurrences(logouts[s].log, "hook") = 0
          /\ s \in logoutPosts => logouts[s].pc = "fetch"
    /\ logoutPosts \subseteq LogoutSlots

C13_Witness ==
    /\ hook = "function"
    /\ \E s \in LogoutSlots :
          /\ logouts[s].pc = "fetch"
          /\ s \in logoutPosts
          /\ logouts[s].log = <<"hook", "hookDone", "post">>

\* C14: a confirmed logout that fails shows an alert (with the server's
\* error string when the answer said success false, the generic
\* connection-failure text when something threw), and no step of a logout
\* touches the session user or the navbar's display and texts; the failing
\* step leaves the storage and the location alone.
C14_FailedLogoutKeepsSession ==
    [][/\ LogoutStep => UNCHANGED <<navUser, navDisplay, navText>>
       /\ (LogoutStep /\ LogoutRefused(logoutEv'))
          => /\ alertText' # <<>>
             /\ logoutEv'.data.error.t = "str"
                => Contains(alertText', logoutEv'.data.error.s)
             /\ UNCHANGED <<localStorage, location>>
       /\ (LogoutStep /\ LogoutThrew(logoutEv'))
          => /\ alertText' = <<"Erreur de connexion au serveur">>
             /\ UNCHANGED <<localStorage, location>>]_vars

C14_Witness ==
    /\ LogoutRefused(logoutEv)
    /\ logoutEv.data.error = Str(LogoutErrText)
    /\ Contains(alertText, LogoutErrText)
    /\ AuthenticatedNavbar
    /\ navUser \in Users
    /\ localStorage # {}
    /\ location = "page"

\* C19: when the offline hook throws or rejects, the logout is abandoned:
\* the run ends having issued no POST, the storage and the location are
\* untouched and the generic connection-failure alert is shown.
C19_HookFailureAbandonsLogout ==
    [][(LogoutStep /\ logoutEv'.kind = "finished"
        /\ LastOf(logoutEv'.log) = "hookThrew")
       => /\ Occurrences(logoutEv'.log, "post") = 0
          /\ UNCHANGED <<logoutPosts, localStorage, location>>
          /\ alertText' = <<"Erreur de connexion au serveur">>]_vars

C19_Witness ==
    /\ logoutEv.kind = "finished"
    /\ logoutEv.log = <<"hook", "hookThrew">>
    /\ alertText = <<"Erreur de connexion au serveur">>
    /\ localStorage # {}
    /\ location = "page"

(***************************************************************************)
(* The active link (checked under NavSpec)                                 *)
(***************************************************************************)
\* The file name of the current page, index.html when the path has none.
PageFile ==
    IF pathname = <<>> \/ pathname[Len(pathname)] = "/"
    THEN "index.html"
    ELSE pathname[Len(pathname)]

\* C15: once setActiveNavLink has run, however many times, the links with
\* the active class are exactly those whose href is the page's file name,
\* index.html standing for an empty one; on /index.html and on the empty
\* path that is the links with href index.html and no other.
C15_ActiveLinkIsCurrentPage ==
    navPc # "loading"
    => /\ active = {i \in 1..Len(links) : links[i] = PageFile}
       /\ pathname \in {<<>>, <<"/", "index.html">>}
          => active = {i \in 1..Len(links) : links[i] = "index.html"}

C15_Witness ==
    /\ navPc # "loading"
    /\ pathname = <<>>
    /\ links = <<"index.html", "/index.html", "index.html">>
    /\ active = {1, 3}

(***************************************************************************)
(* The copy control (checked under CopySpec)                               *)
(***************************************************************************)
\* C16: once no clipboard write is pending and every restore timer has
\* fired, the copy control shows the label it had before the first click.
C16_LabelRestoredAfterTimers ==
    (writes = <<>> /\ timers = <<>>) => copyBtn = CopyLabel

(***************************************************************************)
(* More properties of the generation panel (checked under GenSpec)         *)
(***************************************************************************)
Running == {h \in Slots : handlers[h].pc # "idle"}

\* C17: clicks on the disabled button not being delivered, at most one
\* generate request is in flight and at most one run of the handler is
\* waiting, the button is disabled whenever that is so, and the pending
\* request is the run's own: the response a run renders answers the last
\* request issued.
C17_OneRequestInFlight ==
    /\ Cardinality(network) <= 1
    /\ Cardinality(Running) <= 1
    /\ (network # {} \/ Running # {}) => generateBtn.disabled
    /\ \A r \in network : handlers[r.slot].pc = "fetch"

C17_Witness ==
    /\ Cardinality(network) = 1
    /\ generateBtn.disabled
    /\ view.fenText = Fen1

\* C18: the results panel is hidden while a generate request is in flight
\* or its answer is being read, it is hidden after a generation that ended
\* in a failure, and it is revealed only by the step that ends a generation
\* answered with success true and rendered to the end.
C18_ResultsShownOnlyAfterSuccess ==
    /\ [](Running # {} => resultsDiv.hidden)
    /\ []((ev.kind = "finished" /\ ev.outcome # "success") => resultsDiv.hidden)
    /\ [][(resultsDiv.hidden /\ ~resultsDiv'.hidden)
          => /\ ev'.kind = "finished"
             /\ LastOf(ev'.log) = "enable"
             /\ Contains(ev'.log, <<"response", "parsed">>)
             /\ ~ev'.result.isNull
             /\ ev'.result.success = "true"
             /\ statusDiv'.text = SuccessMessage]_vars

C18_Witness ==
    /\ resultsDiv.hidden
    /\ view.fenText = Fen2
    /\ ev.kind = "finished"
    /\ ev.outcome = "serverError"

(***************************************************************************)
(* The two components together (checked under Spec)                        *)
(***************************************************************************)
\* C20: however the steps of the two components interleave, a step of the
\* generation panel leaves the session user and the navbar's display and
\* texts unchanged, and a step of the navigation widget (session check,
\* logout, active link) that does not send the window elsewhere leaves the
\* button, the status line and the results panel unchanged.
C20_ComponentsShareNoState ==
    [][/\ genVars' # genVars => UNCHANGED <<navUser, navDisplay, navText>>
       /\ (<<navVars, logoutVars, alertText>>' # <<navVars, logoutVars, alertText>>
           /\ location' = location)
          => UNCHANGED <<generateBtn, btnText, btnLoader, statusDiv,
                         resultsDiv, view>>]_vars

C20_Witness ==
    /\ navPc = "json"
    /\ \E h \in Slots : handlers[h].pc = "json"
    /\ \E s \in LogoutSlots : logouts[s].pc = "json"
    /\ resultsDiv.hidden
    /\ view.fenText # <<>>
    /\ navUser = NullUser

====
